---- MODULE Spec2Model ----
(***************************************************************************)
(* Model of the three macros of src/src/lib.rs: guard!, fn_guard! and      *)
(* case!.  A behaviour is one use of one macro: the macro invocation is    *)
(* expanded rule by rule (macro_rules! tries the rules in textual order),  *)
(* and the emitted Rust expression is then evaluated step by step.         *)
(***************************************************************************)
EXTENDS Integers, Sequences, FiniteSets, TLC

MaxClauses == 3
MaxBindings == 2
MaxArms == 3

(* const otherwise: bool = true; *)
otherwise == TRUE

NonExhaustive == "Non-exhaustive guards"

(* ---------------- expressions of the host language -------------------- *)
Lit(b) == [kind |-> "lit", v |-> b, n |-> ""]
Var(x) == [kind |-> "var", v |-> FALSE, n |-> x]

BindingNames == {"v", "w"}
CondExprs == {Lit(TRUE), Lit(FALSE), Var("otherwise"), Var("w")}
ValExprs == {Lit(TRUE), Lit(FALSE), Var("v")}

Unbound == "unbound"

(* the scope at the call site: the name `otherwise` is the crate's const   *)
(* or whatever the caller has bound to that name; v and w are bound only  *)
(* by a where clause (w is what conditions read, v what later bindings    *)
(* read)                                                                   *)
CallSiteScope(o) == [x \in {"otherwise", "v", "w"} |-> IF x = "otherwise" THEN o ELSE Unbound]

EvalExpr(e, sc) == IF e.kind = "lit" THEN e.v ELSE sc[e.n]

(* let $binding = $val; *)
BindLet(l, sc) == [sc EXCEPT ![l.name] = EvalExpr(l.val, sc)]

(* ---------------- tokens of a guard!/fn_guard! invocation ------------- *)
(* a clause `| cond => result`; frag is TRUE once cond has been captured   *)
(* by a $cond:expr matcher and substituted back: it is then one opaque     *)
(* expression fragment and no longer the identifier token it was written  *)
(* as                                                                      *)
RawClause(c) == [cond |-> c.cond, res |-> c.res, frag |-> FALSE]
AsFragment(t) == [cond |-> t.cond, res |-> t.res, frag |-> TRUE]
AsFragments(ts) == [i \in 1..Len(ts) |-> AsFragment(ts[i])]

(* the literal token `otherwise` of the second guard! rule *)
IsOtherwiseTok(t) == ~t.frag /\ t.cond = Var("otherwise")

(* mutation: the let declarations are emitted once more, as if the         *)
(* repetition were nested in the clause repetition                         *)
EmitLetsRepeated(bs) ==
  [i \in 1..(2 * Len(bs)) |->
     [name |-> bs[((i - 1) % Len(bs)) + 1].name,
      val |-> bs[((i - 1) % Len(bs)) + 1].val,
      idx |-> ((i - 1) % Len(bs)) + 1]]

(* $(let $binding = $val;)+ *)
EmitLets(bs) == [i \in 1..Len(bs) |-> [name |-> bs[i].name, val |-> bs[i].val, idx |-> i]]

NoInv == [macro |-> "none", sig |-> "", toks |-> <<>>, wh |-> <<>>]
EmptyOut == [fn |-> "none", lets |-> <<>>, ifs |-> <<>>, tail |-> "hole", tailRes |-> 0]

IfBranch(t) == [cond |-> t.cond, res |-> t.res]

(* which rule of guard! matches the invocation (first match wins) *)
GuardRule(i) ==
  IF i.wh # <<>> THEN "where"
  ELSE IF Len(i.toks) = 1 /\ IsOtherwiseTok(i.toks[1]) THEN "otherwise"
  ELSE IF Len(i.toks) >= 2 THEN "cons"
  ELSE "last"

(* rule 1 of guard!: { $(let $binding = $val;)+ guard!($(| $cond => $result),+) } *)
GuardWhereStep(i, o) ==
  [inv |-> [i EXCEPT !.toks = AsFragments(i.toks), !.wh = <<>>],
   out |-> [o EXCEPT !.lets = EmitLets(i.wh)]]

(* rule 2 of guard!: (| otherwise => $result) => { $result } *)
GuardOtherwiseStep(i, o) ==
  [inv |-> NoInv,
   out |-> [o EXCEPT !.tail = "res", !.tailRes = i.toks[1].res]]

(* rule 3 of guard!: if $cond { $result } else { guard!($($rest)+) } *)
GuardConsStep(i, o) ==
  [inv |-> [i EXCEPT !.toks = Tail(i.toks)],
   out |-> [o EXCEPT !.ifs = Append(o.ifs, IfBranch(i.toks[1]))]]

(* mutation: the last clause is taken as a default instead of panicking    *)
GuardLastStepAsDefault(i, o) ==
  [inv |-> NoInv,
   out |-> [o EXCEPT !.tail = "res", !.tailRes = i.toks[1].res]]

(* rule 4 of guard!: if $cond {$result} else {panic!("Non-exhaustive guards")} *)
GuardLastStep(i, o) ==
  [inv |-> NoInv,
   out |-> [o EXCEPT !.ifs = Append(o.ifs, IfBranch(i.toks[1])), !.tail = "panic"]]

(* both rules of fn_guard!: fn ... { $($(let $binding = $val;)+)? guard!(...) } *)
FnGuardStep(i, o) ==
  [inv |-> [macro |-> "guard", sig |-> "", toks |-> AsFragments(i.toks), wh |-> <<>>],
   out |-> [o EXCEPT !.fn = i.sig, !.lets = EmitLets(i.wh)]]

MacroStep(i, o) ==
  IF i.macro = "fn_guard" THEN FnGuardStep(i, o)
  ELSE CASE GuardRule(i) = "where" -> GuardWhereStep(i, o)
         [] GuardRule(i) = "otherwise" -> GuardOtherwiseStep(i, o)
         [] GuardRule(i) = "cons" -> GuardConsStep(i, o)
         [] OTHER -> GuardLastStep(i, o)

(* the invocation as written in the source *)
SourceInv(f, cs, bs) ==
  [macro |-> IF f = "guard" THEN "guard" ELSE "fn_guard",
   sig |-> IF f = "fn_ret" THEN "ret" ELSE IF f = "fn_unit" THEN "unit" ELSE "",
   toks |-> [k \in 1..Len(cs) |-> RawClause(cs[k])],
   wh |-> bs]

(* complete expansion of an invocation *)
RECURSIVE ExpandAll(_, _)
ExpandAll(i, o) ==
  IF i.macro = "none" THEN o
  ELSE LET s == MacroStep(i, o) IN ExpandAll(s.inv, s.out)

(* evaluation of the emitted expression as a whole *)
RECURSIVE ScopeAfterLets(_, _)
ScopeAfterLets(ls, sc) ==
  IF ls = <<>> THEN sc ELSE ScopeAfterLets(Tail(ls), BindLet(Head(ls), sc))

NoOutcome == [kind |-> "none", val |-> 0, msg |-> ""]
Value(r) == [kind |-> "value", val |-> r, msg |-> ""]
Panicked == [kind |-> "panic", val |-> 0, msg |-> NonExhaustive]

RECURSIVE EvalIfChain(_, _, _)
EvalIfChain(ifs, o, sc) ==
  IF ifs = <<>> THEN (IF o.tail = "res" THEN Value(o.tailRes) ELSE Panicked)
  ELSE IF EvalExpr(Head(ifs).cond, sc) THEN Value(Head(ifs).res)
  ELSE EvalIfChain(Tail(ifs), o, sc)

RunLowered(o, sc) == EvalIfChain(o.ifs, o, ScopeAfterLets(o.lets, sc))

(* outcome of the construct of form f over clauses cs and bindings bs *)
Run(f, cs, bs, o) == RunLowered(ExpandAll(SourceInv(f, cs, bs), EmptyOut), CallSiteScope(o))

(* ---------------- case! ------------------------------------------------ *)
Subjects == {0, 1}
(* a pattern is the set of subjects it matches: a literal or the wildcard *)
LitPat(x) == {x}
Wild == Subjects
Patterns == {LitPat(x) : x \in Subjects} \cup {Wild}
Guards == {"none", "true", "false"}

PatMatches(p, x) == x \in p
GuardHolds(g) == g # "false"

(* `| pat [if guard] => result` becomes `pat [if guard] => result,` *)
NativeArm(a) == [pat |-> a.pat, guard |-> a.guard, res |-> a.res, trail |-> ","]
NativeArms(as) == [k \in 1..Len(as) |-> NativeArm(as[k])]

NoCase == [macro |-> "none", acc |-> FALSE, x |-> 0, arms |-> <<>>, rest |-> <<>>]
NoMatch == [x |-> 0, arms |-> <<>>, emitted |-> FALSE]

(* rule 4 of case!: case!(@acc $x => [] $($rest)+) *)
CaseEntryStep(c) == [c EXCEPT !.acc = TRUE, !.arms = <<>>]

(* mutation: the guard of a guarded arm is lost *)
CaseGuardArmStepDropsGuard(c) ==
  [c EXCEPT !.arms = Append(c.arms, [NativeArm(Head(c.rest)) EXCEPT !.guard = "none"]),
            !.rest = Tail(c.rest)]

(* mutation: the arm is put in front of the accumulator *)
CasePlainArmStepPrepends(c) ==
  [c EXCEPT !.arms = <<NativeArm(Head(c.rest))>> \o c.arms, !.rest = Tail(c.rest)]

(* rules 2 and 3 of case!: the head arm is appended to the accumulator *)
CaseGuardArmStep(c) == [c EXCEPT !.arms = Append(c.arms, NativeArm(Head(c.rest))), !.rest = Tail(c.rest)]
CasePlainArmStep(c) == [c EXCEPT !.arms = Append(c.arms, NativeArm(Head(c.rest))), !.rest = Tail(c.rest)]

(* rule 1 of case!: match $x { $($arms)* } *)
CaseEmit(c) == [x |-> c.x, arms |-> c.arms, emitted |-> TRUE]

(* ---------------- state ------------------------------------------------ *)
VARIABLES form, envOtherwise, clauses, bindings, inv, out, pc, scope,
          letPos, condPos, letEvals, condTrace, resTrace, outcome,
          subject, arms, cinv, matchExpr, caseSteps, armPos

vars == <<form, envOtherwise, clauses, bindings, inv, out, pc, scope,
          letPos, condPos, letEvals, condTrace, resTrace, outcome,
          subject, arms, cinv, matchExpr, caseSteps, armPos>>

guardVars == <<inv, out, scope, letPos, condPos, letEvals, condTrace, resTrace>>
caseVars == <<cinv, matchExpr, caseSteps, armPos>>
sourceVars == <<form, envOtherwise, clauses, bindings, subject, arms>>

ClauseLists == UNION {[1..n -> CondExprs] : n \in 1..MaxClauses}
BindingLists == UNION {[1..n -> [name : BindingNames, val : ValExprs]] : n \in 0..MaxBindings}
ArmLists == UNION {[1..n -> [pat : Patterns, guard : Guards]] : n \in 1..MaxArms}

(* every name an expression reads is bound where it is read *)
BoundBefore(bs, k, x) == \E j \in 1..(k - 1) : bs[j].name = x
BindingsScoped(bs) ==
  \A k \in 1..Len(bs) : bs[k].val.kind = "var" => BoundBefore(bs, k, bs[k].val.n)
CondsScoped(cs, bs) ==
  \A k \in 1..Len(cs) :
     (cs[k].kind = "var" /\ cs[k].n # "otherwise") => BoundBefore(bs, Len(bs) + 1, cs[k].n)

(* a native match must be exhaustive to compile *)
Exhaustive(as) ==
  \A x \in Subjects : \E k \in 1..Len(as) : as[k].guard = "none" /\ PatMatches(as[k].pat, x)

InitGuard ==
  /\ form \in {"guard", "fn_ret", "fn_unit"}
  /\ envOtherwise \in {otherwise, FALSE}
  /\ \E cs \in ClauseLists : \E bs \in BindingLists :
        /\ BindingsScoped(bs)
        /\ CondsScoped(cs, bs)
        /\ clauses = [k \in 1..Len(cs) |-> [cond |-> cs[k], res |-> k]]
        /\ bindings = bs
  /\ inv = SourceInv(form, clauses, bindings)
  /\ subject = 0 /\ arms = <<>> /\ cinv = NoCase

InitCase ==
  /\ form = "case"
  /\ envOtherwise = otherwise
  /\ clauses = <<>> /\ bindings = <<>> /\ inv = NoInv
  /\ subject \in Subjects
  /\ \E as \in ArmLists :
        /\ Exhaustive(as)
        /\ arms = [k \in 1..Len(as) |-> [lead |-> "|", pat |-> as[k].pat, guard |-> as[k].guard, res |-> k]]
  /\ cinv = [macro |-> "case", acc |-> FALSE, x |-> subject, arms |-> <<>>, rest |-> arms]

Init ==
  /\ (InitGuard \/ InitCase)
  /\ out = EmptyOut
  /\ pc = "expand"
  /\ scope = CallSiteScope(envOtherwise)
  /\ letPos = 1 /\ condPos = 1
  /\ letEvals = [k \in 1..Len(bindings) |-> 0]
  /\ condTrace = <<>> /\ resTrace = <<>>
  /\ outcome = NoOutcome
  /\ matchExpr = NoMatch /\ caseSteps = 0 /\ armPos = 1

(* ---------------- expansion actions ------------------------------------ *)
Expanded(s) ==
  /\ inv' = s.inv
  /\ out' = s.out
  /\ pc' = IF s.inv.macro # "none" THEN "expand"
           ELSE IF s.out.lets = <<>> THEN "cond" ELSE "let"
  /\ UNCHANGED <<scope, letPos, condPos, letEvals, condTrace, resTrace, outcome>>
  /\ UNCHANGED sourceVars /\ UNCHANGED caseVars

FnGuardRet ==
  /\ pc = "expand" /\ inv.macro = "fn_guard" /\ inv.sig = "ret"
  /\ Expanded(FnGuardStep(inv, out))

FnGuardUnit ==
  /\ pc = "expand" /\ inv.macro = "fn_guard" /\ inv.sig = "unit"
  /\ Expanded(FnGuardStep(inv, out))

GuardWhere ==
  /\ pc = "expand" /\ inv.macro = "guard" /\ GuardRule(inv) = "where"
  /\ Expanded(GuardWhereStep(inv, out))

GuardOtherwise ==
  /\ pc = "expand" /\ inv.macro = "guard" /\ GuardRule(inv) = "otherwise"
  /\ Expanded(GuardOtherwiseStep(inv, out))

GuardCons ==
  /\ pc = "expand" /\ inv.macro = "guard" /\ GuardRule(inv) = "cons"
  /\ Expanded(GuardConsStep(inv, out))

GuardLast ==
  /\ pc = "expand" /\ inv.macro = "guard" /\ GuardRule(inv) = "last"
  /\ Expanded(GuardLastStep(inv, out))

(* ---------------- evaluation of the emitted guard expression ----------- *)
(* let $binding = $val; the lets run in order before the if chain *)
EvalLet ==
  /\ pc = "let" /\ form # "case" /\ letPos <= Len(out.lets)
  /\ scope' = BindLet(out.lets[letPos], scope)
  /\ letEvals' = [letEvals EXCEPT ![out.lets[letPos].idx] = @ + 1]
  /\ letPos' = letPos + 1
  /\ pc' = IF letPos = Len(out.lets) THEN "cond" ELSE "let"
  /\ UNCHANGED <<inv, out, condPos, condTrace, resTrace, outcome>>
  /\ UNCHANGED sourceVars /\ UNCHANGED caseVars

(* if $cond { $result } else { ... } *)
EvalCond ==
  /\ pc = "cond" /\ condPos <= Len(out.ifs)
  /\ condTrace' = Append(condTrace, out.ifs[condPos].res)
  /\ IF EvalExpr(out.ifs[condPos].cond, scope)
       THEN /\ resTrace' = Append(resTrace, out.ifs[condPos].res)
            /\ outcome' = Value(out.ifs[condPos].res)
            /\ pc' = "done"
            /\ UNCHANGED condPos
       ELSE /\ condPos' = condPos + 1
            /\ UNCHANGED <<resTrace, outcome, pc>>
  /\ UNCHANGED <<inv, out, scope, letPos, letEvals>>
  /\ UNCHANGED sourceVars /\ UNCHANGED caseVars

(* the innermost else: the result of a literal `otherwise` clause *)
EvalOtherwiseResult ==
  /\ pc = "cond" /\ condPos > Len(out.ifs) /\ out.tail = "res"
  /\ resTrace' = Append(resTrace, out.tailRes)
  /\ outcome' = Value(out.tailRes)
  /\ pc' = "done"
  /\ UNCHANGED <<inv, out, scope, letPos, condPos, letEvals, condTrace>>
  /\ UNCHANGED sourceVars /\ UNCHANGED caseVars

(* the innermost else: panic!("Non-exhaustive guards") *)
EvalPanic ==
  /\ pc = "cond" /\ condPos > Len(out.ifs) /\ out.tail = "panic"
  /\ outcome' = Panicked
  /\ pc' = "done"
  /\ UNCHANGED <<inv, out, scope, letPos, condPos, letEvals, condTrace, resTrace>>
  /\ UNCHANGED sourceVars /\ UNCHANGED caseVars

(* ---------------- case! actions ---------------------------------------- *)
CaseStepped(c) ==
  /\ cinv' = c
  /\ UNCHANGED <<matchExpr, armPos, pc, outcome>>
  /\ UNCHANGED sourceVars /\ UNCHANGED guardVars

CaseEntry ==
  /\ pc = "expand" /\ cinv.macro = "case" /\ ~cinv.acc /\ Len(cinv.rest) >= 1
  /\ CaseStepped(CaseEntryStep(cinv))
  /\ UNCHANGED caseSteps

CaseGuardArm ==
  /\ pc = "expand" /\ cinv.macro = "case" /\ cinv.acc /\ cinv.rest # <<>>
  /\ Head(cinv.rest).guard # "none"
  /\ CaseStepped(CaseGuardArmStep(cinv))
  /\ caseSteps' = caseSteps + 1

CasePlainArm ==
  /\ pc = "expand" /\ cinv.macro = "case" /\ cinv.acc /\ cinv.rest # <<>>
  /\ Head(cinv.rest).guard = "none"
  /\ CaseStepped(CasePlainArmStep(cinv))
  /\ caseSteps' = caseSteps + 1

CaseMatch ==
  /\ pc = "expand" /\ cinv.macro = "case" /\ cinv.acc /\ cinv.rest = <<>>
  /\ matchExpr' = CaseEmit(cinv)
  /\ cinv' = NoCase
  /\ pc' = "match"
  /\ UNCHANGED <<caseSteps, armPos, outcome>>
  /\ UNCHANGED sourceVars /\ UNCHANGED guardVars

(* the native match: arms are tried top to bottom *)
EvalArm ==
  /\ pc = "match" /\ armPos <= Len(matchExpr.arms)
  /\ IF /\ PatMatches(matchExpr.arms[armPos].pat, matchExpr.x)
        /\ (matchExpr.arms[armPos].guard # "none" => GuardHolds(matchExpr.arms[armPos].guard))
       THEN /\ outcome' = Value(matchExpr.arms[armPos].res)
            /\ pc' = "done"
            /\ UNCHANGED armPos
       ELSE /\ armPos' = armPos + 1
            /\ UNCHANGED <<outcome, pc>>
  /\ UNCHANGED <<cinv, matchExpr, caseSteps>>
  /\ UNCHANGED sourceVars /\ UNCHANGED guardVars

Next ==
  \/ FnGuardRet
  \/ FnGuardUnit
  \/ GuardWhere
  \/ GuardOtherwise
  \/ GuardCons
  \/ GuardLast
  \/ EvalLet
  \/ EvalCond
  \/ EvalOtherwiseResult
  \/ EvalPanic
  \/ CaseEntry
  \/ CaseGuardArm
  \/ CasePlainArm
  \/ CaseMatch
  \/ EvalArm

Spec == Init /\ [][Next]_vars

(* ======================= properties ==================================== *)
IsOtherwiseClause(c) == c.cond = Var("otherwise")
HasOtherwise(cs) == \E k \in 1..Len(cs) : IsOtherwiseClause(cs[k])
GuardDone == form # "case" /\ pc = "done"
SeqUpTo(n) == [k \in 1..n |-> k]
Min(S) == CHOOSE x \in S : \A y \in S : x <= y

(* C1: a chain that contains an `otherwise` clause never ends in the panic  *)
(* "Non-exhaustive guards", in any surface form.                            *)
C1_OtherwiseNeverPanics ==
  (GuardDone /\ HasOtherwise(clauses)) => outcome.kind # "panic"

(* C2: a chain without `otherwise` fails with "Non-exhaustive guards" when  *)
(* no condition is true and otherwise returns the result of the first true  *)
(* clause in declaration order.                                             *)
TrueClauses == {k \in 1..Len(clauses) : EvalExpr(clauses[k].cond, scope) = TRUE}
C2_FirstTrueOrFail ==
  (GuardDone /\ ~HasOtherwise(clauses)) =>
     IF TrueClauses = {}
       THEN outcome.kind = "panic" /\ outcome.msg = "Non-exhaustive guards"
       ELSE outcome = Value(Min(TrueClauses))
C2_Witness ==
  /\ GuardDone /\ ~HasOtherwise(clauses)
  /\ Cardinality(TrueClauses) >= 2 /\ Min(TrueClauses) = 2
  /\ outcome = Value(2)

(* C3: the outcome of a chain that contains `otherwise` does not depend on  *)
(* the value bound to the name `otherwise` at the call site.                *)
C3_OtherwiseIsReserved ==
  (GuardDone /\ HasOtherwise(clauses)) =>
     outcome = Run(form, clauses, bindings, ~envOtherwise)

(* C4: an `otherwise` clause is terminal wherever it appears: it lowers to  *)
(* its bare result, with no condition test and no failure branch, and no    *)
(* condition or result of a later clause is evaluated.                      *)
FirstOtherwise == Min({k \in 1..Len(clauses) : IsOtherwiseClause(clauses[k])})
C4_OtherwiseIsTerminal ==
  (form # "case" /\ pc # "expand" /\ HasOtherwise(clauses)) =>
     /\ out.tail = "res" /\ out.tailRes = FirstOtherwise
     /\ \A j \in 1..Len(out.ifs) : out.ifs[j].res < FirstOtherwise
     /\ \A j \in 1..Len(condTrace) : condTrace[j] < FirstOtherwise
     /\ \A j \in 1..Len(resTrace) : resTrace[j] <= FirstOtherwise

(* C5: every where-binding is evaluated exactly once per evaluation of the  *)
(* construct, whatever the number of clauses that reference it.             *)
C5_BindingOnce ==
  /\ (form # "case" /\ pc \in {"cond", "done"}) =>
        \A k \in 1..Len(bindings) : letEvals[k] = 1
  /\ \A k \in 1..Len(bindings) : letEvals[k] <= 1
References(x) == {k \in 1..Len(clauses) : clauses[k].cond = Var(x)}
C5_Witness ==
  /\ GuardDone /\ Len(bindings) = 2
  /\ \E k \in 1..2 : Cardinality(References(bindings[k].name)) >= 2
  /\ \A k \in 1..2 : letEvals[k] = 1

(* C6: case! returns the result of the first arm whose pattern matches the  *)
(* subject and whose guard, if present, is true.                            *)
ArmSelects(a, x) == PatMatches(a.pat, x) /\ (a.guard = "none" \/ a.guard = "true")
SelectingArms == {k \in 1..Len(arms) : ArmSelects(arms[k], subject)}
C6_CaseFirstMatch ==
  (form = "case" /\ pc = "done") => outcome = Value(arms[Min(SelectingArms)].res)
C6_Witness ==
  /\ form = "case" /\ pc = "done"
  /\ PatMatches(arms[1].pat, subject) /\ arms[1].guard = "false"
  /\ outcome.kind = "value" /\ outcome.val >= 2

(* C7: the body of the function emitted by fn_guard! has the same outcome   *)
(* as guard! over the same clauses and where-bindings.                      *)
C7_FnGuardIsGuard ==
  (GuardDone /\ form \in {"fn_ret", "fn_unit"}) =>
     outcome = Run("guard", clauses, bindings, envOtherwise)

(* C8: the conditions evaluated are those of clauses 1..k in order, each    *)
(* once, k being the first clause whose condition is true (`otherwise` is   *)
(* always true) or the last clause; exactly the result of clause k is       *)
(* evaluated, or none when evaluation fails.                                *)
HoldingClauses ==
  {k \in 1..Len(clauses) : IsOtherwiseClause(clauses[k]) \/ EvalExpr(clauses[k].cond, scope) = TRUE}
StopClause == IF HoldingClauses = {} THEN Len(clauses) ELSE Min(HoldingClauses)
C8_SequentialShortCircuit ==
  GuardDone =>
     /\ \/ condTrace = SeqUpTo(StopClause)
        \/ IsOtherwiseClause(clauses[StopClause]) /\ condTrace = SeqUpTo(StopClause - 1)
     /\ IF HoldingClauses = {} THEN resTrace = <<>> /\ outcome.kind = "panic"
                               ELSE resTrace = <<StopClause>>

(* C9: guard! with a where clause has the outcome of the bindings evaluated *)
(* in declared order followed by the lowering that guard! without a where   *)
(* clause produces for the same clauses.                                    *)
PlainLowering == ExpandAll(SourceInv("guard", clauses, <<>>), EmptyOut)
C9_WhereWrapsPlainLowering ==
  (GuardDone /\ form = "guard" /\ bindings # <<>>) =>
     outcome = EvalIfChain(PlainLowering.ifs, PlainLowering,
                           ScopeAfterLets(EmitLets(bindings), CallSiteScope(envOtherwise)))

(* C10: during the case! accumulation the accumulated native arms followed  *)
(* by the translation of the unconsumed arms is the translation of the      *)
(* original arm list; each step moves one arm, and after n steps one native *)
(* match with exactly those n arms is emitted.                              *)
C10_AccumulatorInvariant ==
  /\ (form = "case" /\ cinv.macro = "case" /\ cinv.acc) =>
        /\ cinv.arms \o NativeArms(cinv.rest) = NativeArms(arms)
        /\ Len(cinv.arms) = caseSteps
        /\ cinv.x = subject
  /\ (form = "case" /\ pc # "expand") =>
        /\ matchExpr.emitted /\ caseSteps = Len(arms)
        /\ matchExpr.arms = NativeArms(arms)
        /\ matchExpr.x = subject
C10_Witness ==
  /\ form = "case" /\ matchExpr.emitted /\ caseSteps = 3
  /\ arms[1].guard = "none" /\ arms[2].guard # "none"
  /\ matchExpr.arms = NativeArms(arms)

====
